---------------------------- MODULE Spec2Model ----------------------------
(* The two notebooks of woodnet-showcase as state machines.                *)
(*   prediction    : src/showcase-prediction.ipynb                         *)
(*   visualization : src/unnamed/part_000                                  *)
(* Each notebook is run top to bottom ('Run All Cells') by a session of    *)
(* its own (one kernel). Both sessions use the relative directory          *)
(* ./artifacts of the checkout they are started in. A statement that       *)
(* raises halts the run at that statement.                                 *)
EXTENDS Integers, Sequences, FiniteSets, TLC

(* ------------------------------------------------------------------ *)
(* Bounds of the model                                                 *)
(* ------------------------------------------------------------------ *)

\* number of parameter keys of the state dict stored in weights-artifact.pth
NumWeightKeys == 2

\* number of further parameter keys a model may expect beyond those
MaxExtraKeys == 1

\* largest extent of an axis of a stored volume
MaxDim == 2

(* ------------------------------------------------------------------ *)
(* Names used by the notebooks                                         *)
(* ------------------------------------------------------------------ *)

Sessions == {"prediction", "visualization"}

ACER_FILE == "acer-artifact.hdf5"

PINUS_FILE == "pinus-artifact.hdf5"

WEIGHTS_FILE == "weights-artifact.pth"

Files == {ACER_FILE, PINUS_FILE, WEIGHTS_FILE}

ACER_URL == "https://zenodo.org/records/13905949/files/acer-artifact.hdf5"

PINUS_URL == "https://zenodo.org/records/13905949/files/pinus-artifact.hdf5"

WEIGHTS_URL == "https://zenodo.org/records/13905949/files/weights-artifact.pth"

\* the bytes the remote repository serves for a URL
Remote(url) ==
    CASE url = ACER_URL -> "acer container"
      [] url = PINUS_URL -> "pinus container"
      [] url = WEIGHTS_URL -> "pretrained state dict"
      [] OTHER -> "not found"

\* contents a file of the artifact directory can have
Contents ==
    {"absent", "empty", "truncated", "stale",
     "acer container", "pinus container", "pretrained state dict"}

\* contents the HDF5 readers can open
Hdf5Contents == {"acer container", "pinus container"}

\* the parameter keys of the served state dict
WeightKeys == 1..NumWeightKeys

\* the parameter keys a model can have
AllKeys == 1..(NumWeightKeys + MaxExtraKeys)

\* architecture names create_model knows
KnownArchitectures == {"ResNet3D"}

(* ------------------------------------------------------------------ *)
(* The notebooks, statement by statement                               *)
(* ------------------------------------------------------------------ *)

St(op, dst, src, line) == [op |-> op, dst |-> dst, src |-> src, line |-> line]

\* the download cell with the second retrieval written to the first destination
PredictionDownloadWrongDestination ==
    << St("urlretrieve", ACER_FILE, ACER_URL, 103),
       St("urlretrieve", ACER_FILE, PINUS_URL, 104),
       St("urlretrieve", WEIGHTS_FILE, WEIGHTS_URL, 105) >>

\* the download cell of the prediction notebook
PredictionDownload ==
    << St("urlretrieve", ACER_FILE, ACER_URL, 103),
       St("urlretrieve", PINUS_FILE, PINUS_URL, 104),
       St("urlretrieve", WEIGHTS_FILE, WEIGHTS_URL, 105) >>

\* the cells that load the two volumes and print their statistics
PredictionLoad ==
    << St("path", "ACER_ARTIFACT_PATH", ACER_FILE, 123),
       St("assert_is_file", "", "ACER_ARTIFACT_PATH", 124),
       St("path", "PINUS_ARTIFACT_PATH", PINUS_FILE, 125),
       St("assert_is_file", "", "PINUS_ARTIFACT_PATH", 126),
       St("read_data", "$0", "ACER_ARTIFACT_PATH", 145),
       St("read_fingerprint", "$1", "ACER_ARTIFACT_PATH", 145),
       St("assign", "acer_data", "$0", 145),
       St("assign", "acer_fingerprint", "$1", 145),
       St("read_data", "$0", "PINUS_ARTIFACT_PATH", 146),
       St("read_fingerprint", "$1", "PINUS_ARTIFACT_PATH", 146),
       St("assign", "pinus_data", "$0", 146),
       St("assign", "pinus_fingerprint", "$1", 146),
       St("pprint", "", "acer_fingerprint", 164),
       St("pprint", "acer artifact shape", "acer_data", 174),
       St("pprint", "acer artifact min", "acer_data", 175),
       St("pprint", "acer artifact max", "acer_data", 176),
       St("pprint", "acer artifact mean", "acer_data", 177),
       St("pprint", "acer artifact standard deviation", "acer_data", 178),
       St("pprint", "pinus artifact shape", "pinus_data", 188),
       St("pprint", "pinus artifact min", "pinus_data", 189),
       St("pprint", "pinus artifact max", "pinus_data", 190),
       St("pprint", "pinus artifact mean", "pinus_data", 191),
       St("pprint", "pinus artifact standard deviation", "pinus_data", 192) >>

\* the model cells without the cell that loads the weights into the model
PredictionModelNoLoad ==
    << St("literal", "configuration", "ResNet3D", 213),
       St("create_model", "model", "configuration", 223),
       St("literal", "classlabel_mapping", "acer:0,pinus:1", 241),
       St("pprint", "", "model", 259),
       St("path", "PRETRAINED_WEIGHTS_PATH", WEIGHTS_FILE, 279),
       St("assert_is_file", "", "PRETRAINED_WEIGHTS_PATH", 280),
       St("torch_load", "state_dict", "PRETRAINED_WEIGHTS_PATH", 282),
       St("eval", "model", "", 318),
       St("set_testing", "model", "", 319) >>

\* the cells that build the model and load the pretrained weights
PredictionModel ==
    << St("literal", "configuration", "ResNet3D", 213),
       St("create_model", "model", "configuration", 223),
       St("literal", "classlabel_mapping", "acer:0,pinus:1", 241),
       St("pprint", "", "model", 259),
       St("path", "PRETRAINED_WEIGHTS_PATH", WEIGHTS_FILE, 279),
       St("assert_is_file", "", "PRETRAINED_WEIGHTS_PATH", 280),
       St("torch_load", "state_dict", "PRETRAINED_WEIGHTS_PATH", 282),
       St("load_state_dict", "model", "state_dict", 300),
       St("eval", "model", "", 318),
       St("set_testing", "model", "", 319) >>

\* the inference cells with the second forward pass after its with block
PredictionInferenceOutsideContext ==
    << St("from_numpy", "acer_tensor", "acer_data", 337),
       St("from_numpy", "pinus_tensor", "pinus_data", 340),
       St("inference_enter", "", "", 352),
       St("forward", "prediction score for acer class", "acer_tensor", 353),
       St("inference_exit", "", "", 353),
       St("inference_enter", "", "", 363),
       St("inference_exit", "", "", 363),
       St("forward", "prediction score for pinus class", "pinus_tensor", 364),
       St("imshow", "Acer Artifact", "acer_tensor", 391),
       St("imshow", "Pinus Artifact", "pinus_tensor", 395) >>

\* the cells that run the two forward passes and plot the inputs
PredictionInference ==
    << St("from_numpy", "acer_tensor", "acer_data", 337),
       St("from_numpy", "pinus_tensor", "pinus_data", 340),
       St("inference_enter", "", "", 352),
       St("forward", "prediction score for acer class", "acer_tensor", 353),
       St("inference_exit", "", "", 353),
       St("inference_enter", "", "", 363),
       St("forward", "prediction score for pinus class", "pinus_tensor", 364),
       St("inference_exit", "", "", 364),
       St("imshow", "Acer Artifact", "acer_tensor", 391),
       St("imshow", "Pinus Artifact", "pinus_tensor", 395) >>

\* showcase-prediction.ipynb, its code cells from top to bottom
PredictionScript ==
    << St("literal", "ARTIFACT_DIR", "./artifacts", 76),
       St("assert_dir", "", "ARTIFACT_DIR", 77),
       St("literal", "INTERNAL_PATH", "scangroup/dataset", 88) >>
    \o PredictionDownload \o PredictionLoad \o PredictionModel
    \o PredictionInference

\* the download cell of the visualization notebook, fetching the weights too
VisualizationDownloadWithWeights ==
    << St("urlretrieve", ACER_FILE, ACER_URL, 95),
       St("urlretrieve", PINUS_FILE, PINUS_URL, 96),
       St("urlretrieve", WEIGHTS_FILE, WEIGHTS_URL, 96) >>

\* the download cell of the visualization notebook
VisualizationDownload ==
    << St("urlretrieve", ACER_FILE, ACER_URL, 95),
       St("urlretrieve", PINUS_FILE, PINUS_URL, 96) >>

\* the load cells with the pinus fingerprint read from the acer path
VisualizationLoadCrossed ==
    << St("path", "ACER_DATA_PATH", ACER_FILE, 114),
       St("assert_is_file", "", "ACER_DATA_PATH", 115),
       St("path", "PINUS_DATA_PATH", PINUS_FILE, 125),
       St("assert_is_file", "", "PINUS_DATA_PATH", 126),
       St("read_data", "acer_data", "ACER_DATA_PATH", 136),
       St("read_fingerprint", "acer_fingerprint", "ACER_DATA_PATH", 137),
       St("pprint", "acer data shape", "acer_data", 138),
       St("pprint", "", "acer_fingerprint", 139),
       St("read_data", "pinus_data", "PINUS_DATA_PATH", 149),
       St("read_fingerprint", "pinus_fingerprint", "ACER_DATA_PATH", 150),
       St("pprint", "pinus data shape", "acer_data", 151),
       St("pprint", "", "pinus_fingerprint", 152) >>

\* the cells that load the two volumes and print shape and fingerprint
VisualizationLoad ==
    << St("path", "ACER_DATA_PATH", ACER_FILE, 114),
       St("assert_is_file", "", "ACER_DATA_PATH", 115),
       St("path", "PINUS_DATA_PATH", PINUS_FILE, 125),
       St("assert_is_file", "", "PINUS_DATA_PATH", 126),
       St("read_data", "acer_data", "ACER_DATA_PATH", 136),
       St("read_fingerprint", "acer_fingerprint", "ACER_DATA_PATH", 137),
       St("pprint", "acer data shape", "acer_data", 138),
       St("pprint", "", "acer_fingerprint", 139),
       St("read_data", "pinus_data", "PINUS_DATA_PATH", 149),
       St("read_fingerprint", "pinus_fingerprint", "PINUS_DATA_PATH", 150),
       St("pprint", "pinus data shape", "acer_data", 151),
       St("pprint", "", "pinus_fingerprint", 152) >>

\* the cells that build the displays and show their controls
VisualizationDisplays ==
    << St("SliceDisplay", "slicedisplay_acer", "acer_data", 184),
       St("get_controls", "", "slicedisplay_acer", 194),
       St("SliceDisplay", "slicedisplay_pinus", "pinus_data", 223),
       St("get_controls", "", "slicedisplay_pinus", 233),
       St("VolumeDisplay", "volumedisplay_acer", "acer_data", 264),
       St("plot_display", "", "volumedisplay_acer", 274),
       St("get_controls", "", "volumedisplay_acer", 284),
       St("VolumeDisplay", "volumedisplay_pinus", "pinus_data", 315),
       St("plot_display", "", "volumedisplay_pinus", 325),
       St("get_controls", "", "volumedisplay_pinus", 335) >>

\* the visualization notebook, its code cells from top to bottom
VisualizationScript ==
    << St("literal", "ARTIFACT_DIR", "./artifacts", 77),
       St("assert_dir", "", "ARTIFACT_DIR", 78),
       St("literal", "INTERNAL_PATH", "scangroup/dataset", 80) >>
    \o VisualizationDownload \o VisualizationLoad \o VisualizationDisplays

\* the notebook a session runs
Script(s) == IF s = "prediction" THEN PredictionScript ELSE VisualizationScript

\* the statements that bind a kernel variable
BindingOps ==
    {"literal", "path", "read_data", "read_fingerprint", "assign",
     "torch_load", "from_numpy", "SliceDisplay", "VolumeDisplay"}

\* the names a notebook binds in its kernel
VarNames(s) ==
    {Script(s)[i].dst : i \in {j \in 1..Len(Script(s)) : Script(s)[j].op \in BindingOps}}

(* ------------------------------------------------------------------ *)
(* State                                                               *)
(* ------------------------------------------------------------------ *)

VARIABLES
    dirExists,   \* whether ./artifacts exists
    fs,          \* content of each file of ./artifacts
    writing,     \* per file, the sessions with a retrieval to it in flight
    status,      \* per session: idle, running, halted, done
    pc,          \* per session: index of the next statement of its notebook
    kernel,      \* per session: the values bound to its variables
    model,       \* per session: the state of the model object
    inference,   \* per session: whether torch.inference_mode() is entered
    log,         \* per session: what its current run executed, in order
    prior,       \* per session: the directory as the current run found it
    dataset,     \* per HDF5 container: the volume the repository serves in it
    heap         \* per session: the array buffers its kernel has allocated

vars ==
    <<dirExists, fs, writing, status, pc, kernel, model, inference, log, prior,
      dataset, heap>>

\* a value of the kernel
Value(kind, file, ipath, of, keys) ==
    [kind |-> kind, file |-> file, ipath |-> ipath, of |-> of, keys |-> keys,
     shape |-> << >>, strides |-> << >>]

Unbound == Value("unbound", "", "", "", {})

\* the model object before create_model
NoModel ==
    [created |-> FALSE, arch |-> "", keys |-> {}, weights |-> "none",
     training |-> FALSE, testing |-> FALSE]

\* a kernel right after its start
FreshKernel(s) == [v \in VarNames(s) |-> Unbound]

\* number of elements of an array of a shape
RECURSIVE Size(_)
Size(shape) == IF shape = << >> THEN 1 ELSE Head(shape) * Size(Tail(shape))

\* strides, in elements, of a C-contiguous array of a shape
RECURSIVE RowMajor(_)
RowMajor(shape) ==
    IF shape = << >> THEN << >> ELSE <<Size(Tail(shape))>> \o RowMajor(Tail(shape))

\* the volume of a species with a shape: its voxels differ from each other
\* and from the voxels of the other species
Volume(file, shape) ==
    [shape |-> shape,
     data |-> [i \in 1..Size(shape) |-> IF file = ACER_FILE THEN i ELSE 100 + i]]

\* shapes a stored volume can have
Shapes == {<<d, h, w>> : d \in 1..MaxDim, h \in 1..MaxDim, w \in 1..MaxDim}

ReferenceDataset ==
    [f \in {ACER_FILE, PINUS_FILE} |-> Volume(f, <<2, 2, 2>>)]

\* the volume stored in a container of a content
Stored(content) ==
    IF content = "acer container" THEN dataset[ACER_FILE] ELSE dataset[PINUS_FILE]

NoBuffers == [f \in Files |-> << >>]

\* x[items] for items out of np.newaxis and Ellipsis: a view on the buffer of x
RECURSIVE GetItemAxes(_, _, _)
GetItemAxes(shape, strides, items) ==
    IF items = << >>
      THEN [shape |-> shape, strides |-> strides]
      ELSE IF Head(items) = "newaxis"
             THEN LET rest == GetItemAxes(shape, strides, Tail(items))
                  IN  [shape |-> <<1>> \o rest.shape,
                       strides |-> <<0>> \o rest.strides]
             ELSE LET rest == GetItemAxes(<< >>, << >>, Tail(items))
                  IN  [shape |-> shape \o rest.shape,
                       strides |-> strides \o rest.strides]

GetItem(x, items) ==
    LET view == GetItemAxes(x.shape, x.strides, items)
    IN  [x EXCEPT !.shape = view.shape, !.strides = view.strides]

\* the two axes appended instead of prepended
TensorIndexTrailing == <<"...", "newaxis", "newaxis">>

\* the index the notebook applies to a volume before torch.from_numpy
TensorIndex == <<"newaxis", "newaxis", "...">>

\* position in the buffer, counted from 0, of the element at an index
RECURSIVE Offset(_, _)
Offset(strides, idx) ==
    IF idx = << >> THEN 0
    ELSE Head(idx) * Head(strides) + Offset(Tail(strides), Tail(idx))

\* the indices of an array of a shape, counted from 0
Indices(shape) ==
    {idx \in [1..Len(shape) -> 0..MaxDim] : \A k \in 1..Len(shape) : idx[k] < shape[k]}

\* x[idx] of an array or tensor x of session s
Elem(s, x, idx) == heap[s][x.file][1 + Offset(x.strides, idx)]

\* the directory as a session finds it before anything ran
InitContents == {"absent", "stale"}

Init ==
    /\ dirExists \in BOOLEAN
    /\ fs \in [Files -> InitContents]
    /\ (~dirExists => \A f \in Files : fs[f] = "absent")
    /\ writing = [f \in Files |-> {}]
    /\ status = [s \in Sessions |-> "idle"]
    /\ pc = [s \in Sessions |-> 1]
    /\ kernel = [s \in Sessions |-> FreshKernel(s)]
    /\ model = [s \in Sessions |-> NoModel]
    /\ inference = [s \in Sessions |-> FALSE]
    /\ log = [s \in Sessions |-> << >>]
    /\ prior = [s \in Sessions |-> fs]
    /\ dataset = ReferenceDataset
    /\ heap = [s \in Sessions |-> NoBuffers]

(* ------------------------------------------------------------------ *)
(* Running a statement                                                 *)
(* ------------------------------------------------------------------ *)

\* the statement a session executes next
Cur(s) == Script(s)[pc[s]]

\* the session is about to execute a statement of kind op
At(s, op) ==
    /\ status[s] = "running"
    /\ pc[s] <= Len(Script(s))
    /\ Cur(s).op = op

\* what a statement sees of the model and of the gradient mode
Mode(s) ==
    [created |-> model[s].created, weights |-> model[s].weights,
     training |-> model[s].training, testing |-> model[s].testing,
     inference |-> inference[s]]

\* the record a run keeps of an executed statement
Event(s, obj, val, ok, why) ==
    [op |-> Cur(s).op, obj |-> obj, label |-> Cur(s).dst, val |-> val,
     ok |-> ok, why |-> why, line |-> Cur(s).line, mode |-> Mode(s),
     during |-> IF obj \in Files THEN writing[obj] \ {s} ELSE {}]

\* the statement returned: the run goes on with the next one
Ok(s, obj, val) ==
    /\ pc' = [pc EXCEPT ![s] = @ + 1]
    /\ log' = [log EXCEPT ![s] = Append(@, Event(s, obj, val, TRUE, ""))]
    /\ status' = status

\* the statement raised: the run halts at it
Raise(s, obj, why) ==
    /\ pc' = pc
    /\ log' = [log EXCEPT ![s] = Append(@, Event(s, obj, Unbound, FALSE, why))]
    /\ status' = [status EXCEPT ![s] = "halted"]

\* a name is bound in the session's kernel
Bound(s, name) ==
    IF name = "model" THEN model[s].created
    ELSE name \in VarNames(s) /\ kernel[s][name].kind # "unbound"

\* the value of a name (the model object is kept apart)
Val(s, name) == IF name \in VarNames(s) THEN kernel[s][name] ELSE Unbound

\* bind a name
Bind(s, name, val) == kernel' = [kernel EXCEPT ![s][name] = val]

\* 'Run All Cells' on a fresh kernel
Run(s) ==
    /\ status[s] \in {"idle", "halted", "done"}
    /\ status' = [status EXCEPT ![s] = "running"]
    /\ pc' = [pc EXCEPT ![s] = 1]
    /\ kernel' = [kernel EXCEPT ![s] = FreshKernel(s)]
    /\ model' = [model EXCEPT ![s] = NoModel]
    /\ inference' = [inference EXCEPT ![s] = FALSE]
    /\ log' = [log EXCEPT ![s] = << >>]
    /\ prior' = [prior EXCEPT ![s] = fs]
    /\ heap' = [heap EXCEPT ![s] = NoBuffers]
    /\ UNCHANGED <<dirExists, fs, writing, dataset>>

\* a notebook run on its own: no other session is running, and the kernel of
\* the other notebook is shut down
RunAlone(s) ==
    /\ status[s] \in {"idle", "halted", "done"}
    /\ \A t \in Sessions \ {s} : status[t] # "running"
    /\ status' = [t \in Sessions |-> IF t = s THEN "running" ELSE "idle"]
    /\ pc' = [t \in Sessions |-> 1]
    /\ kernel' = [t \in Sessions |-> FreshKernel(t)]
    /\ model' = [t \in Sessions |-> NoModel]
    /\ inference' = [t \in Sessions |-> FALSE]
    /\ log' = [t \in Sessions |-> << >>]
    /\ prior' = [t \in Sessions |-> fs]
    /\ heap' = [t \in Sessions |-> NoBuffers]
    /\ UNCHANGED <<dirExists, fs, writing, dataset>>

\* the last cell returned
Finish(s) ==
    /\ status[s] = "running"
    /\ pc[s] = Len(Script(s)) + 1
    /\ status' = [status EXCEPT ![s] = "done"]
    /\ UNCHANGED <<dirExists, fs, writing, pc, kernel, model, inference, log, prior, dataset, heap>>

\* NAME = <literal>
Literal(s) ==
    /\ At(s, "literal")
    /\ Bind(s, Cur(s).dst, Value("literal", "", "", Cur(s).src, {}))
    /\ Ok(s, Cur(s).dst, Unbound)
    /\ UNCHANGED <<dirExists, fs, writing, model, inference, prior, dataset, heap>>

\* the directory check with the assert statement not enforced: the run goes on
AssertDirUnchecked(s) ==
    /\ At(s, "assert_dir")
    /\ pc' = [pc EXCEPT ![s] = @ + 1]
    /\ log' = [log EXCEPT ![s] = Append(@,
           Event(s, Cur(s).src, Unbound, Bound(s, Cur(s).src) /\ dirExists, ""))]
    /\ status' = status
    /\ UNCHANGED <<dirExists, fs, writing, kernel, model, inference, prior, dataset, heap>>

\* assert ARTIFACT_DIR.exists(), 'artifacts directory should exist'
AssertDir(s) ==
    /\ At(s, "assert_dir")
    /\ IF Bound(s, Cur(s).src) /\ dirExists
         THEN Ok(s, Cur(s).src, Unbound)
         ELSE Raise(s, Cur(s).src, "AssertionError")
    /\ UNCHANGED <<dirExists, fs, writing, kernel, model, inference, prior, dataset, heap>>

\* urlretrieve with the destination opened for exclusive creation: a
\* destination that is already there raises
UrlretrieveOpenExclusive(s) ==
    /\ At(s, "urlretrieve")
    /\ s \notin writing[Cur(s).dst]
    /\ \E answered \in BOOLEAN :
         IF ~answered
           THEN /\ Raise(s, Cur(s).dst, "URLError")
                /\ UNCHANGED <<fs, writing>>
           ELSE IF ~dirExists \/ fs[Cur(s).dst] # "absent"
             THEN /\ Raise(s, Cur(s).dst, IF dirExists THEN "FileExistsError"
                                           ELSE "FileNotFoundError")
                  /\ UNCHANGED <<fs, writing>>
             ELSE /\ fs' = [fs EXCEPT ![Cur(s).dst] = "empty"]
                  /\ writing' = [writing EXCEPT ![Cur(s).dst] = @ \cup {s}]
                  /\ UNCHANGED <<pc, log, status>>
    /\ UNCHANGED <<dirExists, kernel, model, inference, prior, dataset, heap>>

\* urllib.request.urlretrieve(url, ARTIFACT_DIR / name): the request is made
\* and the destination is opened for writing, which empties it
UrlretrieveOpen(s) ==
    /\ At(s, "urlretrieve")
    /\ s \notin writing[Cur(s).dst]
    /\ \E answered \in BOOLEAN :
         IF ~answered
           THEN /\ Raise(s, Cur(s).dst, "URLError")
                /\ UNCHANGED <<fs, writing>>
           ELSE IF ~dirExists
             THEN /\ Raise(s, Cur(s).dst, "FileNotFoundError")
                  /\ UNCHANGED <<fs, writing>>
             ELSE /\ fs' = [fs EXCEPT ![Cur(s).dst] = "empty"]
                  /\ writing' = [writing EXCEPT ![Cur(s).dst] = @ \cup {s}]
                  /\ UNCHANGED <<pc, log, status>>
    /\ UNCHANGED <<dirExists, kernel, model, inference, prior, dataset, heap>>

\* the transfer with its error caught and dropped: the run goes on
UrlretrieveTransferSwallowed(s) ==
    /\ At(s, "urlretrieve")
    /\ s \in writing[Cur(s).dst]
    /\ writing' = [writing EXCEPT ![Cur(s).dst] = @ \ {s}]
    /\ \E complete \in BOOLEAN :
         IF complete
           THEN /\ fs' = [fs EXCEPT ![Cur(s).dst] =
                            IF writing[Cur(s).dst] = {s}
                              THEN Remote(Cur(s).src) ELSE "truncated"]
                /\ Ok(s, Cur(s).dst, Unbound)
           ELSE /\ \E left \in {"empty", "truncated"} :
                     /\ left = "empty" => fs[Cur(s).dst] = "empty"
                     /\ fs' = [fs EXCEPT ![Cur(s).dst] = left]
                /\ pc' = [pc EXCEPT ![s] = @ + 1]
                /\ log' = [log EXCEPT ![s] = Append(@,
                       Event(s, Cur(s).dst, Unbound, FALSE, "ContentTooShortError"))]
                /\ status' = status
    /\ UNCHANGED <<dirExists, kernel, model, inference, prior, dataset, heap>>

\* urlretrieve, the transfer: all blocks are written, or the transfer breaks
\* and what was written so far stays
UrlretrieveTransfer(s) ==
    /\ At(s, "urlretrieve")
    /\ s \in writing[Cur(s).dst]
    /\ writing' = [writing EXCEPT ![Cur(s).dst] = @ \ {s}]
    /\ \E complete \in BOOLEAN :
         IF complete
           THEN /\ fs' = [fs EXCEPT ![Cur(s).dst] =
                            IF writing[Cur(s).dst] = {s}
                              THEN Remote(Cur(s).src) ELSE "truncated"]
                /\ Ok(s, Cur(s).dst, Unbound)
           ELSE /\ \E left \in {"empty", "truncated"} :
                     /\ left = "empty" => fs[Cur(s).dst] = "empty"
                     /\ fs' = [fs EXCEPT ![Cur(s).dst] = left]
                /\ Raise(s, Cur(s).dst, "ContentTooShortError")
    /\ UNCHANGED <<dirExists, kernel, model, inference, prior, dataset, heap>>

\* NAME_PATH = ARTIFACT_DIR / name
BindPath(s) ==
    /\ At(s, "path")
    /\ IF Bound(s, "ARTIFACT_DIR")
         THEN /\ Bind(s, Cur(s).dst, Value("path", Cur(s).src, "", "", {}))
              /\ Ok(s, Cur(s).dst, Unbound)
         ELSE /\ Raise(s, Cur(s).dst, "NameError")
              /\ UNCHANGED kernel
    /\ UNCHANGED <<dirExists, fs, writing, model, inference, prior, dataset, heap>>

\* the is_file check with the assert statement not enforced: the run goes on
AssertIsFileUnchecked(s) ==
    /\ At(s, "assert_is_file")
    /\ pc' = [pc EXCEPT ![s] = @ + 1]
    /\ log' = [log EXCEPT ![s] = Append(@,
           Event(s, Val(s, Cur(s).src).file, Unbound,
                 Bound(s, Cur(s).src) /\ fs[Val(s, Cur(s).src).file] # "absent", ""))]
    /\ status' = status
    /\ UNCHANGED <<dirExists, fs, writing, kernel, model, inference, prior, dataset, heap>>

\* assert NAME_PATH.is_file(), 'setup failed: ... missing'
AssertIsFile(s) ==
    /\ At(s, "assert_is_file")
    /\ IF Bound(s, Cur(s).src) /\ fs[Val(s, Cur(s).src).file] # "absent"
         THEN Ok(s, Val(s, Cur(s).src).file, Unbound)
         ELSE Raise(s, Val(s, Cur(s).src).file, "AssertionError")
    /\ UNCHANGED <<dirExists, fs, writing, kernel, model, inference, prior, dataset, heap>>

\* what an HDF5 reader returns for a path and an internal path, or why not
ReadHdf5(s, kind) ==
    LET file == Val(s, Cur(s).src).file
        read == Value(kind, file, Val(s, "INTERNAL_PATH").of, fs[file], {})
        val == IF kind = "volume" /\ fs[file] \in Hdf5Contents
                 THEN [read EXCEPT !.shape = Stored(fs[file]).shape,
                                   !.strides = RowMajor(Stored(fs[file]).shape)]
                 ELSE read
    IN  IF fs[file] \in Hdf5Contents
          THEN /\ Bind(s, Cur(s).dst, val)
               /\ Ok(s, file, val)
          ELSE /\ Raise(s, file, IF fs[file] = "absent"
                                   THEN "FileNotFoundError" ELSE "OSError")
               /\ UNCHANGED kernel

\* x = read_data_from_hdf5(NAME_PATH, INTERNAL_PATH)
ReadData(s) ==
    /\ At(s, "read_data")
    /\ ReadHdf5(s, "volume")
    /\ LET file == Val(s, Cur(s).src).file
       IN  heap' = IF fs[file] \in Hdf5Contents
                     THEN [heap EXCEPT ![s][file] = Stored(fs[file]).data]
                     ELSE heap
    /\ UNCHANGED <<dirExists, fs, writing, model, inference, prior, dataset>>

\* x = read_fingerprint_from_hdf5(NAME_PATH, INTERNAL_PATH)
ReadFingerprint(s) ==
    /\ At(s, "read_fingerprint")
    /\ ReadHdf5(s, "fingerprint")
    /\ UNCHANGED <<dirExists, fs, writing, model, inference, prior, dataset, heap>>

\* the binding of one target of a tuple assignment
Assign(s) ==
    /\ At(s, "assign")
    /\ Bind(s, Cur(s).dst, Val(s, Cur(s).src))
    /\ Ok(s, Cur(s).dst, Val(s, Cur(s).src))
    /\ UNCHANGED <<dirExists, fs, writing, model, inference, prior, dataset, heap>>

\* pprint(...) of a name or of a labelled attribute of it
Pprint(s) ==
    /\ At(s, "pprint")
    /\ IF Bound(s, Cur(s).src)
         THEN Ok(s, Cur(s).src, Val(s, Cur(s).src))
         ELSE Raise(s, Cur(s).src, "NameError")
    /\ UNCHANGED <<dirExists, fs, writing, kernel, model, inference, prior, dataset, heap>>

\* model = create_model(configuration): a new module, in training mode, with
\* the parameter keys of the installed architecture
CreateModel(s) ==
    /\ At(s, "create_model")
    /\ IF Val(s, Cur(s).src).of \in KnownArchitectures
         THEN /\ \E ks \in SUBSET AllKeys \ {{}} :
                   model' = [model EXCEPT ![s] =
                       [created |-> TRUE, arch |-> Val(s, Cur(s).src).of,
                        keys |-> ks, weights |-> "random",
                        training |-> TRUE, testing |-> FALSE]]
              /\ Ok(s, Cur(s).dst, Unbound)
         ELSE /\ Raise(s, Cur(s).dst, "ValueError")
              /\ UNCHANGED model
    /\ UNCHANGED <<dirExists, fs, writing, kernel, inference, prior, dataset, heap>>

\* state_dict = torch.load(PRETRAINED_WEIGHTS_PATH, map_location='cpu', weights_only=True)
TorchLoad(s) ==
    /\ At(s, "torch_load")
    /\ LET file == Val(s, Cur(s).src).file
           val == Value("state_dict", file, "", fs[file], WeightKeys)
       IN  IF fs[file] = "pretrained state dict"
             THEN /\ Bind(s, Cur(s).dst, val)
                  /\ Ok(s, file, val)
             ELSE /\ Raise(s, file, IF fs[file] = "absent"
                                      THEN "FileNotFoundError" ELSE "UnpicklingError")
                  /\ UNCHANGED kernel
    /\ UNCHANGED <<dirExists, fs, writing, model, inference, prior, dataset, heap>>

\* model.load_state_dict(state_dict, strict=False): the parameters whose keys
\* match are copied and the others are skipped
LoadStateDictNonStrict(s) ==
    /\ At(s, "load_state_dict")
    /\ LET sd == Val(s, Cur(s).src)
       IN  /\ model' = [model EXCEPT ![s].weights =
                          IF sd.keys = model[s].keys THEN "pretrained"
                          ELSE IF sd.keys \cap model[s].keys = {} THEN @ ELSE "partial"]
           /\ Ok(s, Cur(s).dst, sd)
    /\ UNCHANGED <<dirExists, fs, writing, kernel, inference, prior, dataset, heap>>

\* model.load_state_dict(state_dict), strict by default: the parameters whose
\* keys match are copied in place, and any missing or unexpected key raises
LoadStateDict(s) ==
    /\ At(s, "load_state_dict")
    /\ LET sd == Val(s, Cur(s).src)
       IN  IF sd.keys = model[s].keys
             THEN /\ model' = [model EXCEPT ![s].weights = "pretrained"]
                  /\ Ok(s, Cur(s).dst, sd)
             ELSE /\ model' = [model EXCEPT ![s].weights =
                                 IF sd.keys \cap model[s].keys = {} THEN @ ELSE "partial"]
                  /\ Raise(s, Cur(s).dst, "RuntimeError")
    /\ UNCHANGED <<dirExists, fs, writing, kernel, inference, prior, dataset, heap>>

\* model.eval without the call: the attribute is looked up and nothing happens
ModelEvalNotCalled(s) ==
    /\ At(s, "eval")
    /\ Ok(s, Cur(s).dst, Unbound)
    /\ UNCHANGED <<dirExists, fs, writing, kernel, model, inference, prior, dataset, heap>>

\* model.eval()
ModelEval(s) ==
    /\ At(s, "eval")
    /\ model' = [model EXCEPT ![s].training = FALSE]
    /\ Ok(s, Cur(s).dst, Unbound)
    /\ UNCHANGED <<dirExists, fs, writing, kernel, inference, prior, dataset, heap>>

\* model.testing = True
SetTesting(s) ==
    /\ At(s, "set_testing")
    /\ model' = [model EXCEPT ![s].testing = TRUE]
    /\ Ok(s, Cur(s).dst, Unbound)
    /\ UNCHANGED <<dirExists, fs, writing, kernel, inference, prior, dataset, heap>>

\* the conversion followed by an in-place rescaling of the tensor, which
\* writes into the buffer the tensor shares with the volume
FromNumpyRescaledInPlace(s) ==
    /\ At(s, "from_numpy")
    /\ IF Bound(s, Cur(s).src)
         THEN /\ Bind(s, Cur(s).dst,
                      [GetItem(Val(s, Cur(s).src), TensorIndex)
                         EXCEPT !.kind = "tensor"])
              /\ Ok(s, Cur(s).dst, Val(s, Cur(s).src))
              /\ heap' = [heap EXCEPT ![s][Val(s, Cur(s).src).file] =
                            [i \in DOMAIN @ |-> 2 * @[i]]]
         ELSE /\ Raise(s, Cur(s).dst, "NameError")
              /\ UNCHANGED <<kernel, heap>>
    /\ UNCHANGED <<dirExists, fs, writing, model, inference, prior, dataset>>

\* x_tensor = torch.from_numpy(x_data[np.newaxis, np.newaxis, ...])
FromNumpy(s) ==
    /\ At(s, "from_numpy")
    /\ IF Bound(s, Cur(s).src)
         THEN /\ Bind(s, Cur(s).dst,
                      [GetItem(Val(s, Cur(s).src), TensorIndex)
                         EXCEPT !.kind = "tensor"])
              /\ Ok(s, Cur(s).dst, Val(s, Cur(s).src))
         ELSE /\ Raise(s, Cur(s).dst, "NameError")
              /\ UNCHANGED kernel
    /\ UNCHANGED <<dirExists, fs, writing, model, inference, prior, dataset, heap>>

\* with torch.inference_mode():
InferenceEnter(s) ==
    /\ At(s, "inference_enter")
    /\ inference' = [inference EXCEPT ![s] = TRUE]
    /\ Ok(s, "", Unbound)
    /\ UNCHANGED <<dirExists, fs, writing, kernel, model, prior, dataset, heap>>

\* the end of the with block
InferenceExit(s) ==
    /\ At(s, "inference_exit")
    /\ inference' = [inference EXCEPT ![s] = FALSE]
    /\ Ok(s, "", Unbound)
    /\ UNCHANGED <<dirExists, fs, writing, kernel, model, prior, dataset, heap>>

\* pprint(f'prediction score ...: {model(x_tensor).item():.5f}'): a forward
\* pass; in training mode it updates the running statistics of the norm layers
Forward(s) ==
    /\ At(s, "forward")
    /\ IF Bound(s, "model") /\ Bound(s, Cur(s).src)
         THEN /\ model' = [model EXCEPT ![s].weights =
                             IF model[s].training THEN "updated" ELSE @]
              /\ Ok(s, Cur(s).src, Val(s, Cur(s).src))
              /\ UNCHANGED inference
         ELSE /\ Raise(s, Cur(s).src, "NameError")
              /\ inference' = [inference EXCEPT ![s] = FALSE]
              /\ UNCHANGED model
    /\ UNCHANGED <<dirExists, fs, writing, kernel, prior, dataset, heap>>

\* ax.imshow(x_tensor.numpy()[0, 0, 128, ...], **kwargs)
Imshow(s) ==
    /\ At(s, "imshow")
    /\ IF Bound(s, Cur(s).src)
         THEN Ok(s, Cur(s).src, Val(s, Cur(s).src))
         ELSE Raise(s, Cur(s).src, "NameError")
    /\ UNCHANGED <<dirExists, fs, writing, kernel, model, inference, prior, dataset, heap>>

\* a display object built from a loaded volume
NewDisplay(s) ==
    IF Bound(s, Cur(s).src)
      THEN /\ Bind(s, Cur(s).dst, [Val(s, Cur(s).src) EXCEPT !.kind = Cur(s).op])
           /\ Ok(s, Cur(s).dst, Val(s, Cur(s).src))
      ELSE /\ Raise(s, Cur(s).dst, "NameError")
           /\ UNCHANGED kernel

\* slicedisplay_x = SliceDisplay(x_data)
SliceDisplay(s) ==
    /\ At(s, "SliceDisplay")
    /\ NewDisplay(s)
    /\ UNCHANGED <<dirExists, fs, writing, model, inference, prior, dataset, heap>>

\* volumedisplay_x = VolumeDisplay(x_data)
VolumeDisplay(s) ==
    /\ At(s, "VolumeDisplay")
    /\ NewDisplay(s)
    /\ UNCHANGED <<dirExists, fs, writing, model, inference, prior, dataset, heap>>

\* volumedisplay_x.plot.display()
PlotDisplay(s) ==
    /\ At(s, "plot_display")
    /\ IF Bound(s, Cur(s).src)
         THEN Ok(s, Cur(s).src, Val(s, Cur(s).src))
         ELSE Raise(s, Cur(s).src, "NameError")
    /\ UNCHANGED <<dirExists, fs, writing, kernel, model, inference, prior, dataset, heap>>

\* display.get_controls()
GetControls(s) ==
    /\ At(s, "get_controls")
    /\ IF Bound(s, Cur(s).src)
         THEN Ok(s, Cur(s).src, Val(s, Cur(s).src))
         ELSE Raise(s, Cur(s).src, "NameError")
    /\ UNCHANGED <<dirExists, fs, writing, kernel, model, inference, prior, dataset, heap>>

\* an artifact goes missing outside the notebooks (the case the is_file
\* assertions are written for)
RemoveFile(f) ==
    /\ fs[f] # "absent"
    /\ writing[f] = {}
    /\ fs' = [fs EXCEPT ![f] = "absent"]
    /\ UNCHANGED <<dirExists, writing, status, pc, kernel, model, inference, log, prior, dataset, heap>>

(* ------------------------------------------------------------------ *)
(* Specifications                                                      *)
(* ------------------------------------------------------------------ *)

\* one statement of a running session
Step(s) ==
    \/ Literal(s)
    \/ AssertDir(s)
    \/ UrlretrieveOpen(s)
    \/ UrlretrieveTransfer(s)
    \/ BindPath(s)
    \/ AssertIsFile(s)
    \/ ReadData(s)
    \/ ReadFingerprint(s)
    \/ Assign(s)
    \/ Pprint(s)
    \/ CreateModel(s)
    \/ TorchLoad(s)
    \/ LoadStateDict(s)
    \/ ModelEval(s)
    \/ SetTesting(s)
    \/ FromNumpy(s)
    \/ InferenceEnter(s)
    \/ Forward(s)
    \/ InferenceExit(s)
    \/ Imshow(s)
    \/ SliceDisplay(s)
    \/ VolumeDisplay(s)
    \/ PlotDisplay(s)
    \/ GetControls(s)
    \/ Finish(s)

\* the notebooks run one at a time, any number of times, in any order
Next == \E s \in Sessions : RunAlone(s) \/ Step(s)

Spec == Init /\ [][Next]_vars

\* the notebooks run one at a time, and artifacts can go missing under them
NextEnv ==
    \/ \E s \in Sessions : RunAlone(s) \/ Step(s)
    \/ \E f \in Files : RemoveFile(f)

SpecEnv == Init /\ [][NextEnv]_vars

\* 'Run All Cells' of a notebook whose kernel has not run yet
RunOnce(s) ==
    /\ status[s] = "idle"
    /\ Run(s)

\* both notebooks are run, once each, at the same time in one checkout
NextConcurrent == \E s \in Sessions : RunOnce(s) \/ Step(s)

\* a fresh checkout: the artifact directory is there and holds nothing yet
InitFresh ==
    /\ Init
    /\ dirExists
    /\ \A f \in Files : fs[f] = "absent"

SpecConcurrent == InitFresh /\ [][NextConcurrent]_vars

\* a fresh checkout, and a repository that serves volumes of any shape
InitVolumes ==
    /\ dirExists = TRUE
    /\ fs = [f \in Files |-> "absent"]
    /\ writing = [f \in Files |-> {}]
    /\ status = [s \in Sessions |-> "idle"]
    /\ pc = [s \in Sessions |-> 1]
    /\ kernel = [s \in Sessions |-> FreshKernel(s)]
    /\ model = [s \in Sessions |-> NoModel]
    /\ inference = [s \in Sessions |-> FALSE]
    /\ log = [s \in Sessions |-> << >>]
    /\ prior = [s \in Sessions |-> fs]
    /\ \E f \in {ACER_FILE, PINUS_FILE}, shape \in Shapes :
          dataset = [ReferenceDataset EXCEPT ![f] = Volume(f, shape)]
    /\ heap = [s \in Sessions |-> NoBuffers]

SpecVolumes == InitVolumes /\ [][Next]_vars

(* ------------------------------------------------------------------ *)
(* Reading the record of a run                                         *)
(* ------------------------------------------------------------------ *)

Events(s) == 1..Len(log[s])

\* the statements that read an artifact file
ReadOps == {"read_data", "read_fingerprint", "torch_load"}

\* the run executed a statement of kind op
Did(s, op) == \E i \in Events(s) : log[s][i].op = op

\* the statements of kind op that returned before event i of the run
Before(s, i, op) == {j \in 1..(i - 1) : log[s][j].op = op /\ log[s][j].ok}

\* the run halted at its event i
HaltedAt(s, i) == i = Len(log[s]) /\ status[s] = "halted"

(* ------------------------------------------------------------------ *)
(* C1                                                                  *)
(* ------------------------------------------------------------------ *)

\* C1: in both notebooks every read of an artifact file F (read_data_from_hdf5,
\* read_fingerprint_from_hdf5, torch.load) comes after a passed assertion that
\* F is a file, and a failed assertion on F is the last statement of the run:
\* the run is halted there and holds no read of F.
C1_ReadsFollowAssertion ==
    \A s \in Sessions : \A i \in Events(s) :
        /\ log[s][i].op \in ReadOps =>
             \E j \in 1..(i - 1) :
                 /\ log[s][j].op = "assert_is_file"
                 /\ log[s][j].obj = log[s][i].obj
                 /\ log[s][j].ok
        /\ (log[s][i].op = "assert_is_file" /\ ~log[s][i].ok) =>
             /\ HaltedAt(s, i)
             /\ \A k \in Events(s) :
                    ~(log[s][k].op \in ReadOps /\ log[s][k].obj = log[s][i].obj)

\* a run that read the two containers and then halted at the assertion on the
\* weight file, which had gone missing
C1_Witness ==
    \E s \in Sessions :
        /\ status[s] = "halted"
        /\ log[s] # << >>
        /\ log[s][Len(log[s])].op = "assert_is_file"
        /\ log[s][Len(log[s])].obj = WEIGHTS_FILE
        /\ ~log[s][Len(log[s])].ok
        /\ fs[WEIGHTS_FILE] = "absent"
        /\ \E i \in Events(s) : log[s][i].op = "read_data" /\ log[s][i].obj = ACER_FILE

(* ------------------------------------------------------------------ *)
(* C2                                                                  *)
(* ------------------------------------------------------------------ *)

\* C2: every forward pass of the prediction notebook comes after, in this
\* order, create_model, a load_state_dict that returned, model.eval() and
\* model.testing = True, and sees a created model with the pretrained weights,
\* not in training mode, with testing set.
C2_ForwardAfterSetup ==
    \A s \in Sessions : \A i \in Events(s) :
        log[s][i].op = "forward" =>
            /\ \E d \in Before(s, i, "set_testing") :
                 \E c \in Before(s, d, "eval") :
                   \E b \in Before(s, c, "load_state_dict") :
                     Before(s, b, "create_model") # {}
            /\ log[s][i].mode.created
            /\ log[s][i].mode.weights = "pretrained"
            /\ ~log[s][i].mode.training
            /\ log[s][i].mode.testing

\* a run that made a forward pass
C2_Witness ==
    \E s \in Sessions : \E i \in Events(s) :
        log[s][i].op = "forward" /\ log[s][i].ok /\ log[s][i].obj = "acer_tensor"

(* ------------------------------------------------------------------ *)
(* C3                                                                  *)
(* ------------------------------------------------------------------ *)

\* C3: from model.eval() to the end of the run the model is not in training
\* mode and its parameters are those it had when model.eval() was called.
C3_EvalIsOneWay ==
    \A s \in Sessions : \A i \in Events(s) :
        log[s][i].op = "eval" =>
            /\ ~model[s].training
            /\ model[s].weights = log[s][i].mode.weights

\* a finished run with both forward passes after model.eval()
C3_Witness ==
    \E s \in Sessions :
        /\ status[s] = "done"
        /\ \E k \in Events(s) :
               /\ log[s][k].op = "forward"
               /\ \E j \in Before(s, k, "forward") : Before(s, j, "eval") # {}

(* ------------------------------------------------------------------ *)
(* C4                                                                  *)
(* ------------------------------------------------------------------ *)

\* C4: every forward pass, for each of the two samples, is made with
\* torch.inference_mode() entered.
C4_ForwardInInferenceMode ==
    \A s \in Sessions : \A i \in Events(s) :
        log[s][i].op = "forward" => log[s][i].mode.inference

\* a run that made the forward pass of both samples
C4_Witness ==
    \E s \in Sessions : \E i, j \in Events(s) :
        /\ log[s][i].op = "forward" /\ log[s][i].obj = "acer_tensor"
        /\ log[s][j].op = "forward" /\ log[s][j].obj = "pinus_tensor"

(* ------------------------------------------------------------------ *)
(* C5                                                                  *)
(* ------------------------------------------------------------------ *)

\* C5: model.load_state_dict returns exactly when the keys of the loaded state
\* dict are the model's parameter keys; otherwise it raises, the run is halted
\* at it, and the run holds no model.eval() and no forward pass.
C5_LoadIsStrict ==
    \A s \in Sessions : \A i \in Events(s) :
        log[s][i].op = "load_state_dict" =>
            /\ log[s][i].ok <=> Val(s, "state_dict").keys = model[s].keys
            /\ ~log[s][i].ok =>
                 /\ HaltedAt(s, i)
                 /\ log[s][i].why = "RuntimeError"
                 /\ ~Did(s, "eval")
                 /\ ~Did(s, "forward")

\* a run halted at load_state_dict: the model expects a key the state dict
\* does not have
C5_Witness ==
    \E s \in Sessions :
        /\ status[s] = "halted"
        /\ log[s] # << >>
        /\ log[s][Len(log[s])].op = "load_state_dict"
        /\ model[s].keys \ Val(s, "state_dict").keys # {}

(* ------------------------------------------------------------------ *)
(* C6                                                                  *)
(* ------------------------------------------------------------------ *)

\* the last event of a run that has one
LastEvent(l) == l[Len(l)]

\* a failed retrieval is the last statement of its run, and no run retrieves
\* to the same destination twice
C6_AbortsAtRetrieval ==
    \A s \in Sessions : \A i \in Events(s) :
        log[s][i].op = "urlretrieve" =>
            /\ ~log[s][i].ok => HaltedAt(s, i)
            /\ \A j \in Events(s) :
                   (log[s][j].op = "urlretrieve" /\ log[s][j].obj = log[s][i].obj) => j = i

\* the step at which a retrieval fails removes no file and changes no file but
\* its destination, and a halted run executes nothing more
C6_NoCleanup ==
    \A s \in Sessions :
        /\ (/\ log'[s] # log[s]
            /\ log'[s] # << >>
            /\ LastEvent(log'[s]).op = "urlretrieve"
            /\ ~LastEvent(log'[s]).ok) =>
               \A f \in Files :
                   /\ f # LastEvent(log'[s]).obj => fs'[f] = fs[f]
                   /\ fs[f] # "absent" => fs'[f] # "absent"
        /\ status[s] = "halted" =>
               \/ log'[s] = log[s] /\ pc'[s] = pc[s] /\ kernel'[s] = kernel[s]
               \/ log'[s] = << >>

\* C6: a retrieval that fails halts the run at that statement: it is not
\* retried, no later statement of the run is executed, no file is removed and
\* no file other than the failed destination is changed.
C6_RetrievalFailureAborts == []C6_AbortsAtRetrieval /\ [][C6_NoCleanup]_vars

\* a run halted at the second retrieval, broken during the transfer: the first
\* file is complete and the partial second file is still there
C6_Witness ==
    \E s \in Sessions :
        /\ status[s] = "halted"
        /\ log[s] # << >>
        /\ LastEvent(log[s]).op = "urlretrieve"
        /\ LastEvent(log[s]).obj = PINUS_FILE
        /\ LastEvent(log[s]).why = "ContentTooShortError"
        /\ fs[PINUS_FILE] = "truncated"
        /\ fs[ACER_FILE] = Remote(ACER_URL)

(* ------------------------------------------------------------------ *)
(* C7                                                                  *)
(* ------------------------------------------------------------------ *)

\* the index of the last retrieval of a notebook
RetrievalEnd(s) ==
    CHOOSE i \in 1..Len(Script(s)) :
        /\ Script(s)[i].op = "urlretrieve"
        /\ \A j \in (i + 1)..Len(Script(s)) : Script(s)[j].op # "urlretrieve"

\* the retrieval step of the session's current run has completed
PastRetrieval(s) == status[s] # "idle" /\ pc[s] > RetrievalEnd(s)

\* the files a notebook retrieves
Retrieved(s) == IF s = "prediction" THEN Files ELSE {ACER_FILE, PINUS_FILE}

\* the URL a file is retrieved from
UrlOf(f) ==
    CASE f = ACER_FILE -> ACER_URL
      [] f = PINUS_FILE -> PINUS_URL
      [] f = WEIGHTS_FILE -> WEIGHTS_URL

\* C7 as stated: after the retrieval step of either notebook, all three files
\* exist and are non-empty.
C7_Original ==
    \A s \in Sessions :
        PastRetrieval(s) => \A f \in Files : fs[f] \notin {"absent", "empty"}

\* C7, amended: after the retrieval step of a notebook run on its own, each
\* file that notebook retrieves exists and is non-empty: all three for the
\* prediction notebook, the two containers for the visualization notebook.
C7_RetrievedFilesExist ==
    \A s \in Sessions :
        PastRetrieval(s) => \A f \in Retrieved(s) : fs[f] \notin {"absent", "empty"}

\* the prediction notebook past its retrieval step, started on an empty directory
C7_Witness ==
    /\ PastRetrieval("prediction")
    /\ \A f \in Files : prior["prediction"][f] = "absent" /\ fs[f] # "absent"

(* ------------------------------------------------------------------ *)
(* C8                                                                  *)
(* ------------------------------------------------------------------ *)

\* C8: whatever the directory held before (nothing, other content, or the
\* files of an earlier run), a retrieval step that completes leaves each of its
\* destinations with exactly the content its URL serves, and a retrieval fails
\* only for the network, never because its destination is already there.
C8_RetrievalIdempotent ==
    \A s \in Sessions :
        /\ PastRetrieval(s) => \A f \in Retrieved(s) : fs[f] = Remote(UrlOf(f))
        /\ \A i \in Events(s) :
               (log[s][i].op = "urlretrieve" /\ ~log[s][i].ok) =>
                   log[s][i].why \in {"URLError", "ContentTooShortError"}

\* a rerun past its retrieval step that found the first file already
\* retrieved and other content in the second
C8_Witness ==
    \E s \in Sessions :
        /\ PastRetrieval(s)
        /\ prior[s][ACER_FILE] = Remote(ACER_URL)
        /\ prior[s][PINUS_FILE] = "stale"
        /\ fs[PINUS_FILE] = Remote(PINUS_URL)

(* ------------------------------------------------------------------ *)
(* C9                                                                  *)
(* ------------------------------------------------------------------ *)

\* the session's current run has written to the file, or is writing to it
Writes(s, f) ==
    \/ s \in writing[f]
    \/ \E i \in Events(s) :
           /\ log[s][i].op = "urlretrieve"
           /\ log[s][i].obj = f
           /\ log[s][i].why # "URLError"

\* the session's current run has written, checked or read the file
Touches(s, f) == s \in writing[f] \/ \E i \in Events(s) : log[s][i].obj = f

\* C9 as stated: no session reads or writes a file the other session writes,
\* and no file is read while it is being overwritten.
C9_Original ==
    /\ \A f \in Files : \A s, t \in Sessions :
           (s # t /\ Writes(s, f)) => ~Touches(t, f)
    /\ \A s \in Sessions : \A i \in Events(s) :
           log[s][i].op \in ReadOps => log[s][i].during = {}

\* C9, amended: the two notebooks share the files acer-artifact.hdf5 and
\* pinus-artifact.hdf5 of ./artifacts, which both retrieve and read, so that
\* run at the same time one can read such a file while the other overwrites
\* it; only weights-artifact.pth is written and read by one session alone (the
\* prediction notebook) and is never accessed while being overwritten.
C9_OnlyWeightsPrivate ==
    /\ \A s \in Sessions : Touches(s, WEIGHTS_FILE) => s = "prediction"
    /\ \A s \in Sessions : \A i \in Events(s) :
           log[s][i].during # {} => log[s][i].obj \in {ACER_FILE, PINUS_FILE}

\* the visualization notebook read a container while the prediction notebook,
\* which goes on to retrieve the weights, was overwriting it
C9_Witness ==
    /\ Writes("prediction", WEIGHTS_FILE)
    /\ \E i \in Events("visualization") :
           /\ log["visualization"][i].op \in ReadOps
           /\ log["visualization"][i].during = {"prediction"}

(* ------------------------------------------------------------------ *)
(* C10                                                                 *)
(* ------------------------------------------------------------------ *)

\* the volume and the fingerprint of a species come from one file, path and content
SamePair(s, data, fingerprint, file) ==
    /\ Bound(s, data) =>
           /\ kernel[s][data].kind = "volume"
           /\ kernel[s][data].file = file
           /\ kernel[s][data].ipath = "scangroup/dataset"
    /\ Bound(s, fingerprint) =>
           /\ kernel[s][fingerprint].kind = "fingerprint"
           /\ kernel[s][fingerprint].file = file
           /\ kernel[s][fingerprint].ipath = "scangroup/dataset"
    /\ (Bound(s, data) /\ Bound(s, fingerprint)) =>
           kernel[s][data].of = kernel[s][fingerprint].of

\* C10: in both notebooks acer_data and acer_fingerprint are read from
\* acer-artifact.hdf5, pinus_data and pinus_fingerprint from
\* pinus-artifact.hdf5, each at the internal path 'scangroup/dataset'.
C10_PairsFromOneFile ==
    \A s \in Sessions :
        /\ SamePair(s, "acer_data", "acer_fingerprint", ACER_FILE)
        /\ SamePair(s, "pinus_data", "pinus_fingerprint", PINUS_FILE)

\* a finished run with both volumes and both fingerprints bound
C10_Witness ==
    \E s \in Sessions :
        /\ status[s] = "done"
        /\ Bound(s, "acer_data") /\ Bound(s, "acer_fingerprint")
        /\ Bound(s, "pinus_data") /\ Bound(s, "pinus_fingerprint")

(* ------------------------------------------------------------------ *)
(* C11                                                                 *)
(* ------------------------------------------------------------------ *)

\* the container of the specimen a score is printed for
SpecimenFile(label) ==
    IF label = "prediction score for acer class" THEN ACER_FILE ELSE PINUS_FILE

\* the volumes the run read from a container
VolumesRead(s, file) ==
    {log[s][j].val : j \in {i \in Events(s) : /\ log[s][i].op = "read_data"
                                              /\ log[s][i].ok
                                              /\ log[s][i].obj = file}}

\* tensor x is volume v under two leading axes of extent 1
LeadsVolume(s, x, v) ==
    /\ Len(v.shape) = 3
    /\ x.shape = <<1, 1>> \o v.shape
    /\ \A idx \in Indices(v.shape) :
           Elem(s, x, <<0, 0>> \o idx) = Elem(s, v, idx)

\* C11: the tensor passed to the model for a specimen has shape (1, 1, D, H, W),
\* where (D, H, W) is the shape of the volume read from that specimen's
\* container, and its element [0, 0, d, h, w] equals volume[d, h, w].
C11_TensorLeadsVolume ==
    \A s \in Sessions : \A i \in Events(s) :
        (log[s][i].op = "forward" /\ log[s][i].ok) =>
            /\ VolumesRead(s, SpecimenFile(log[s][i].label)) # {}
            /\ \A v \in VolumesRead(s, SpecimenFile(log[s][i].label)) :
                   LeadsVolume(s, log[s][i].val, v)

\* the model was called on a tensor of a volume whose axes differ in extent
C11_Witness ==
    \E s \in Sessions : \E i \in Events(s) :
        /\ log[s][i].op = "forward" /\ log[s][i].ok
        /\ Len(log[s][i].val.shape) = 5
        /\ log[s][i].val.shape[3] # log[s][i].val.shape[5]
        /\ Elem(s, log[s][i].val, <<0, 0, 0, 0, 1>>) = 2

(* ------------------------------------------------------------------ *)
(* C12                                                                 *)
(* ------------------------------------------------------------------ *)

\* what a run executes up to and including the directory assertion
SetupOps == {"literal", "assert_dir"}

\* C12: if the artifact directory does not exist when a notebook starts, the
\* directory assertion fails and halts the run: no retrieval is attempted, no
\* file is created, and no later cell executes.
C12_MissingDirHalts ==
    ~dirExists =>
        /\ \A f \in Files : fs[f] = "absent" /\ writing[f] = {}
        /\ \A s \in Sessions :
             /\ \A i \in Events(s) :
                  /\ log[s][i].op \in SetupOps
                  /\ log[s][i].op = "assert_dir" =>
                         /\ ~log[s][i].ok
                         /\ log[s][i].why = "AssertionError"
                         /\ HaltedAt(s, i)
             /\ \A n \in VarNames(s) : Bound(s, n) => n = "ARTIFACT_DIR"
             /\ ~model[s].created
             /\ status[s] # "done"

\* a run halted by the directory assertion on a missing directory
C12_Witness ==
    /\ ~dirExists
    /\ \E s \in Sessions :
         /\ status[s] = "halted"
         /\ log[s] # << >>
         /\ LastEvent(log[s]).op = "assert_dir"
         /\ LastEvent(log[s]).why = "AssertionError"
         /\ Cur(s).op = "assert_dir"

(* ------------------------------------------------------------------ *)
(* C13                                                                 *)
(* ------------------------------------------------------------------ *)

\* the names the loaded volumes are bound to
VolumeNames == {"acer_data", "pinus_data"}

\* a step of a run leaves a loaded volume, its shape and its voxels, as it was
C13_StepKeepsVolumes ==
    \A s \in Sessions : \A n \in VolumeNames :
        (Bound(s, n) /\ log'[s] # << >>) =>
            /\ kernel'[s][n] = kernel[s][n]
            /\ heap'[s][kernel[s][n].file] = heap[s][kernel[s][n].file]

\* C13: the loaded volume is immutable once read: no later step (tensor
\* conversion, forward pass, plotting, SliceDisplay / VolumeDisplay and their
\* get_controls) changes the shape or the contents of acer_data or pinus_data.
C13_VolumesImmutable == [][C13_StepKeepsVolumes]_vars

\* a run went through every step after the reads, and its volumes hold the
\* shape and the voxels stored in the containers
C13_Witness ==
    \E s \in Sessions :
        /\ status[s] = "done"
        /\ Did(s, "forward") \/ Did(s, "get_controls")
        /\ \A n \in VolumeNames :
             /\ Bound(s, n)
             /\ kernel[s][n].shape = dataset[kernel[s][n].file].shape
             /\ heap[s][kernel[s][n].file] = dataset[kernel[s][n].file].data
        /\ \E n \in VolumeNames : kernel[s][n].shape # <<2, 2, 2>>

(* ------------------------------------------------------------------ *)
(* C15                                                                 *)
(* ------------------------------------------------------------------ *)

\* the labels the notebooks print diagnostics of the acer specimen under
AcerLabels ==
    {"acer artifact shape", "acer artifact min", "acer artifact max",
     "acer artifact mean", "acer artifact standard deviation", "acer data shape"}

\* the labels the notebooks print diagnostics of the pinus specimen under
PinusLabels ==
    {"pinus artifact shape", "pinus artifact min", "pinus artifact max",
     "pinus artifact mean", "pinus artifact standard deviation",
     "pinus data shape"}

\* the container a printed value was read from
PrintedFrom(s, i) == log[s][i].val.file

\* C15: every diagnostic line a notebook prints under a species' label is
\* computed from that species' loaded volume or fingerprint: a line labelled
\* 'pinus' never reports a value of the acer data, and a line labelled 'acer'
\* never reports a value of the pinus data.
C15_LabelsMatchData ==
    \A s \in Sessions : \A i \in Events(s) :
        (log[s][i].op = "pprint" /\ log[s][i].ok) =>
            /\ log[s][i].label \in AcerLabels => PrintedFrom(s, i) = ACER_FILE
            /\ log[s][i].label \in PinusLabels => PrintedFrom(s, i) = PINUS_FILE

\* a line labelled 'pinus data shape' was printed that shows the shape of the
\* acer volume, which is not the shape of the pinus volume
C15_Witness ==
    \E i \in Events("visualization") :
        LET e == log["visualization"][i]
        IN  /\ e.op = "pprint" /\ e.ok
            /\ e.label = "pinus data shape"
            /\ e.val.file = ACER_FILE
            /\ e.val.shape = dataset[ACER_FILE].shape
            /\ e.val.shape # kernel["visualization"]["pinus_data"].shape

=============================================================================
